---- MODULE Spec2Model ----
(***************************************************************************)
(* Status ledger of finn-bruktbil: the two SQLite tables ad_ids and        *)
(* ad_details (finnbruktbil/db.py), the write paths upsert_ad_ids,         *)
(* save_ad_detail and mark_missing as their callers run them inside        *)
(* db_session, and the scheduler query fetch_ids_for_scraping.             *)
(*                                                                         *)
(* Time is counted in whole hours (the unit of stale_hours).  A timestamp  *)
(* column holds the text that isoformat() produced, modelled as a          *)
(* fixed-width sequence of decimal digits; SQLite compares such columns as *)
(* text.  A nullable value is <<>> (NULL / None) or <<x>>.                 *)
(***************************************************************************)
EXTENDS Integers, Sequences, FiniteSets, TLC

VARIABLES
    ad_ids,      \* table ad_ids: ad_id -> row, for the ids that have a row
    ad_details,  \* table ad_details: ad_id -> row, for the ids that have a row
    now,         \* the host's UTC clock, in hours
    tz,          \* the host's local UTC offset, in hours
    steps,       \* number of ledger sessions run so far
    last,        \* the most recent step: operation, arguments, outcome, ledger before it
    scen,        \* position in the end-to-end scenario of SpecScenario
    crawl,       \* the run of fetch_ids_into_db in progress, if any (SpecCrawl)
    dl,          \* the run of the download command in progress, if any (SpecDownload)
    conf         \* the command whose configuration is being loaded, if any (SpecConfig)

vars == <<ad_ids, ad_details, now, tz, steps, last, scen, crawl, dl, conf>>

(***************************************************************************)
(* Bounds of the model.                                                    *)
(***************************************************************************)
StartHour == 9
MaxTicks == 2
MaxSteps == 3
MaxPages == 3
MaxRuns == 2

Ids == {"a", "b"}
TzOffsets == {0, 1}
SourceUrls == {"url1", "url2"}

(***************************************************************************)
(* Values.                                                                 *)
(***************************************************************************)
None == <<>>
Some(x) == <<x>>

Range(s) == {s[i] : i \in DOMAIN s}

\* datetime.isoformat(timespec="seconds"): zero-padded, fixed width.
isoformat(t) == <<t \div 10, t % 10>>

\* SQLite's comparison of two TEXT values (BINARY collation): bytewise,
\* a proper prefix sorts first.
RECURSIVE TextLeq(_, _)
TextLeq(s, t) ==
    IF s = <<>> THEN TRUE
    ELSE IF t = <<>> THEN FALSE
    ELSE IF Head(s) < Head(t) THEN TRUE
    ELSE IF Head(s) > Head(t) THEN FALSE
    ELSE TextLeq(Tail(s), Tail(t))

utcnow == now
localnow == now + tz

(***************************************************************************)
(* json.dumps(record.specs, ensure_ascii=True): the overflow map, a dict   *)
(* in insertion order, as one text.  A string is a sequence of characters; *)
(* "U+00F8" stands for a non-ASCII character.                              *)
(***************************************************************************)
NonAscii == {"U+00F8"}

RECURSIVE JsonEscape(_)
JsonEscape(s) ==
    IF s = <<>> THEN <<>>
    ELSE (IF Head(s) \in NonAscii THEN <<"\\", "u", "0", "0", "f", "8">>
          ELSE IF Head(s) \in {"\"", "\\"} THEN <<"\\", Head(s)>>
          ELSE <<Head(s)>>) \o JsonEscape(Tail(s))

JsonString(s) == <<"\"">> \o JsonEscape(s) \o <<"\"">>

RECURSIVE JsonItems(_)
JsonItems(m) ==
    IF m = <<>> THEN <<>>
    ELSE JsonString(Head(m)[1]) \o <<":", " ">> \o JsonString(Head(m)[2])
         \o (IF Tail(m) = <<>> THEN <<>> ELSE <<",", " ">>)
         \o JsonItems(Tail(m))

JsonDumps(m) == <<"{">> \o JsonItems(m) \o <<"}">>

(***************************************************************************)
(* What scrape_ad can hand to save_ad_detail, apart from ad_id and         *)
(* fetched_at: title and totalpris stand for the 35 structured columns,    *)
(* which the statement treats alike; specs is the overflow map.            *)
(***************************************************************************)
Payloads ==
    { [title |-> Some("Tesla"), totalpris |-> Some(1),
       specs |-> << <<<<"D", "U+00F8", "r">>, <<"5">>>>, <<<<"M">>, <<"Y">>>> >>],
      [title |-> None, totalpris |-> None,
       specs |-> << <<<<"F">>, <<"b", "l", "\"">>>> >>] }

AdRecord(ad_id, fetched_at, p) ==
    [ad_id |-> ad_id, fetched_at |-> fetched_at, title |-> p.title,
     totalpris |-> p.totalpris, specs |-> p.specs]

(***************************************************************************)
(* The ledger: D = [ids |-> table ad_ids, details |-> table ad_details].   *)
(***************************************************************************)
EmptyDb == [ids |-> <<>>, details |-> <<>>]

Db == [ids |-> ad_ids, details |-> ad_details]

\* PRAGMA foreign_keys = ON, issued on every connection.
ForeignKeysOff == FALSE
foreign_keys == TRUE

\* The CASE of the ON CONFLICT clause of upsert_ad_ids.
ConflictStatusOverwrite(old) == "pending"
ConflictStatusKeep(old) == old
ConflictStatus(old) == IF old = "missing" THEN "pending" ELSE old

\* One row of the executemany of upsert_ad_ids.
UpsertRowInsertOrIgnore(D, ad_id, source_url, fetched_by, ts) ==
    IF ad_id \in DOMAIN D.ids THEN D
    ELSE [D EXCEPT !.ids = (ad_id :>
             [source_url |-> source_url, fetched_by |-> fetched_by,
              first_seen |-> ts, last_seen |-> ts,
              last_scraped |-> None, scrape_status |-> "pending"]) @@ D.ids]
UpsertRowInsertOrReplace(D, ad_id, source_url, fetched_by, ts) ==
    [ids |-> (ad_id :>
             [source_url |-> source_url, fetched_by |-> fetched_by,
              first_seen |-> ts, last_seen |-> ts,
              last_scraped |-> None, scrape_status |-> "pending"]) @@ D.ids,
     details |-> [i \in DOMAIN D.details \ {ad_id} |-> D.details[i]]]
UpsertRow(D, ad_id, source_url, fetched_by, ts) ==
    IF ad_id \in DOMAIN D.ids
    THEN LET old == D.ids[ad_id] IN
         [D EXCEPT !.ids[ad_id] =
             [source_url |-> source_url,
              fetched_by |-> fetched_by,
              first_seen |-> old.first_seen,
              last_seen |-> ts,
              last_scraped |-> old.last_scraped,
              scrape_status |-> ConflictStatus(old.scrape_status)]]
    ELSE [D EXCEPT !.ids = (ad_id :>
             [source_url |-> source_url,
              fetched_by |-> fetched_by,
              first_seen |-> ts,
              last_seen |-> ts,
              last_scraped |-> None,
              scrape_status |-> "pending"]) @@ D.ids]

RECURSIVE executemany(_, _, _, _, _)
executemany(D, batch, source_url, fetched_by, ts) ==
    IF batch = <<>> THEN D
    ELSE executemany(UpsertRow(D, Head(batch), source_url, fetched_by, ts),
                     Tail(batch), source_url, fetched_by, ts)

upsert_ad_ids_localtime(D, source_url, batch, fetched_by) ==
    [raised |-> FALSE,
     db |-> executemany(D, batch, source_url, fetched_by, isoformat(localnow))]
upsert_ad_ids(D, source_url, batch, fetched_by) ==
    [raised |-> FALSE,
     db |-> executemany(D, batch, source_url, fetched_by, isoformat(utcnow))]

\* upsert_ad_ids when the k-th statement of the executemany raises (the
\* database is locked or full): the rows before it are written in the open
\* transaction.
upsert_ad_ids_raising(D, source_url, batch, fetched_by, k) ==
    [raised |-> TRUE,
     db |-> executemany(D, SubSeq(batch, 1, k - 1), source_url, fetched_by,
                        isoformat(utcnow))]

\* FOREIGN KEY (ad_id) REFERENCES ad_ids (ad_id) ON DELETE CASCADE: the
\* detail rows left when the ad_ids row of ad_id goes.
OnDeleteNothing(details, ad_id) == details
OnDelete(details, ad_id) == [i \in DOMAIN details \ {ad_id} |-> details[i]]

\* DELETE FROM ad_ids WHERE ad_id = ?, by maintenance outside the commands,
\* on a connection of get_connection.
delete_ad_id(D, ad_id) ==
    [raised |-> FALSE,
     db |-> [ids |-> [i \in DOMAIN D.ids \ {ad_id} |-> D.ids[i]],
             details |-> IF foreign_keys THEN OnDelete(D.details, ad_id)
                         ELSE D.details]]

\* The row that the INSERT of save_ad_detail writes for a record.
DetailRow(record) ==
    [fetched_at |-> isoformat(record.fetched_at),
     title |-> record.title,
     totalpris |-> record.totalpris,
     raw_spec_json |-> JsonDumps(record.specs)]

\* ON CONFLICT(ad_id) DO UPDATE SET column = excluded.column, for each of
\* the 36 columns other than ad_id: the row after a conflict.
ConflictDetailCoalesce(old, excluded) ==
    [c \in DOMAIN excluded |-> IF excluded[c] = None THEN old[c] ELSE excluded[c]]
ConflictDetail(old, excluded) == excluded

\* INSERT INTO ad_details ... ON CONFLICT(ad_id) DO UPDATE SET every column.
\* With foreign keys enforced, a row whose ad_id has no ad_ids row is
\* refused and the statement has no effect.
InsertDetailOrIgnore(D, record) ==
    IF foreign_keys /\ record.ad_id \notin DOMAIN D.ids
    THEN [raised |-> TRUE, db |-> D]
    ELSE [raised |-> FALSE,
          db |-> [D EXCEPT !.details =
                     D.details @@ (record.ad_id :> DetailRow(record))]]
InsertDetail(D, record) ==
    IF foreign_keys /\ record.ad_id \notin DOMAIN D.ids
    THEN [raised |-> TRUE, db |-> D]
    ELSE [raised |-> FALSE,
          db |-> [D EXCEPT !.details =
                     (record.ad_id :>
                         IF record.ad_id \in DOMAIN D.details
                         THEN ConflictDetail(D.details[record.ad_id], DetailRow(record))
                         ELSE DetailRow(record)) @@ D.details]]

\* UPDATE ad_ids SET last_scraped = ?, scrape_status = ? WHERE ad_id = ?
UpdateScrapeEveryRow(D, ad_id, ts, status) ==
    [D EXCEPT !.ids = [i \in DOMAIN D.ids |->
        [D.ids[i] EXCEPT !.last_scraped = Some(ts), !.scrape_status = status]]]
UpdateScrapeStatusOnly(D, ad_id, ts, status) ==
    IF ad_id \in DOMAIN D.ids
    THEN [D EXCEPT !.ids[ad_id].scrape_status = status]
    ELSE D
UpdateScrape(D, ad_id, ts, status) ==
    IF ad_id \in DOMAIN D.ids
    THEN [D EXCEPT !.ids[ad_id].last_scraped = Some(ts),
                   !.ids[ad_id].scrape_status = status]
    ELSE D

save_ad_detail_stamp_utcnow(D, record, fault) ==
    LET ins == InsertDetail(D, record) IN
    IF ins.raised THEN ins
    ELSE IF fault THEN [raised |-> TRUE, db |-> ins.db]
    ELSE [raised |-> FALSE,
          db |-> UpdateScrape(ins.db, record.ad_id, isoformat(utcnow), "scraped")]

\* fault: the second statement raises (the connection fails between the
\* two statements).
save_ad_detail(D, record, fault) ==
    LET ins == InsertDetail(D, record) IN
    IF ins.raised THEN ins
    ELSE IF fault THEN [raised |-> TRUE, db |-> ins.db]
    ELSE [raised |-> FALSE,
          db |-> UpdateScrape(ins.db, record.ad_id,
                              isoformat(record.fetched_at), "scraped")]

mark_missing(D, ad_id) ==
    [raised |-> FALSE,
     db |-> UpdateScrape(D, ad_id, isoformat(utcnow), "missing")]

\* with db_session(...) as conn: body.  commit() runs only when the body
\* raised nothing; close() discards what was not committed.
db_session_commit_always(committed, outcome) == outcome.db
db_session(committed, outcome) ==
    IF outcome.raised THEN committed ELSE outcome.db

\* initialize_schema on a ledger whose tables exist: CREATE TABLE IF NOT
\* EXISTS and _ensure_column leave every row as it is.
initialize_schema_recreate(D) == EmptyDb
initialize_schema(D) == D

(***************************************************************************)
(* fetch_ids_for_scraping: the scheduler's query.                          *)
(***************************************************************************)
\* The literal that ORDER BY COALESCE(last_scraped, ...) puts in place of NULL.
EpochText == isoformat(0)

\* scrape_status IN ('pending', 'scraped')
StatusClauseAny(row) == TRUE
StatusClause(row) == row.scrape_status \in {"pending", "scraped"}

\* threshold = datetime.utcnow() - timedelta(hours=stale_hours), as text
Threshold(stale_hours) == isoformat(utcnow - stale_hours)

\* last_scraped IS NULL, or (last_scraped IS NULL OR last_scraped <= ?)
StaleClauseAlways(row, stale_hours) == TRUE
StaleClauseStrict(row, stale_hours) ==
    IF stale_hours = None THEN row.last_scraped = None
    ELSE \/ row.last_scraped = None
         \/ /\ TextLeq(row.last_scraped[1], isoformat(utcnow - stale_hours[1]))
            /\ row.last_scraped[1] # isoformat(utcnow - stale_hours[1])
StaleClause(row, stale_hours) ==
    IF stale_hours = None THEN row.last_scraped = None
    ELSE \/ row.last_scraped = None
         \/ TextLeq(row.last_scraped[1], Threshold(stale_hours[1]))

Where(D, stale_hours) ==
    {i \in DOMAIN D.ids :
        StatusClause(D.ids[i]) /\ StaleClause(D.ids[i], stale_hours)}

Orderings(S) ==
    {p \in [1..Cardinality(S) -> S] : \A i, j \in DOMAIN p : i # j => p[i] # p[j]}

\* COALESCE(last_scraped, '1970-01-01T00:00:00')
SortKeyNullLast(row) == IF row.last_scraped = None THEN isoformat(99) ELSE row.last_scraped[1]
SortKey(row) == IF row.last_scraped = None THEN EpochText ELSE row.last_scraped[1]

\* The orders ORDER BY allows: any order under RANDOM(); ascending by the
\* sort key otherwise, rows with equal keys in any order.
OrderBy(D, S, random_order) ==
    IF random_order THEN Orderings(S)
    ELSE {p \in Orderings(S) :
             \A i, j \in DOMAIN p :
                 i < j => TextLeq(SortKey(D.ids[p[i]]), SortKey(D.ids[p[j]]))}

Min(x, y) == IF x <= y THEN x ELSE y

\* LIMIT ?
LimitToNone(p, limit) == p
LimitTo(p, limit) == SubSeq(p, 1, Min(limit, Len(p)))

\* The lists the query can return.
fetch_ids_for_scraping(D, limit, stale_hours, random_order) ==
    {LimitTo(p, limit) : p \in OrderBy(D, Where(D, stale_hours), random_order)}

Limits == 1..(Cardinality(Ids) + 1)
StaleHours == {None, Some(1), Some(2)}

(***************************************************************************)
(* The page crawler (cli/fetch_ids.py).  A URL is its path and its query,  *)
(* the query a sequence of <<key, value>> pairs; a value is a sequence of  *)
(* characters.                                                             *)
(***************************************************************************)
CrawlIds == {"a", "b", "c"}

BaseUrls ==
    { [path |-> "/search", query |-> <<>>],
      [path |-> "/search",
       query |-> << <<"q", <<"x">>>>, <<"page", <<"7">>>>,
                    <<"q", <<"y">>>>, <<"sort", <<>>>> >>] }

NoUrl == [path |-> "", query |-> <<>>]

\* str(page)
DigitChar == <<"0", "1", "2", "3", "4", "5", "6", "7", "8", "9">>
RECURSIVE str(_)
str(n) == IF n < 10 THEN <<DigitChar[n + 1]>>
          ELSE str(n \div 10) \o <<DigitChar[(n % 10) + 1]>>

\* parse_qsl(query, keep_blank_values=True)
parse_qsl(query, keep_blank_values) ==
    LET Keep(kv) == keep_blank_values \/ kv[2] # <<>> IN SelectSeq(query, Keep)

\* d[key] = value on a dict (insertion-ordered, one entry per key)
DictSet(d, key, value) ==
    IF \E i \in DOMAIN d : d[i][1] = key
    THEN [i \in DOMAIN d |-> IF d[i][1] = key THEN <<key, value>> ELSE d[i]]
    ELSE Append(d, <<key, value>>)

\* dict(pairs)
RECURSIVE DictOfFrom(_, _)
DictOfFrom(d, pairs) ==
    IF pairs = <<>> THEN d
    ELSE DictOfFrom(DictSet(d, Head(pairs)[1], Head(pairs)[2]), Tail(pairs))
dict(pairs) == DictOfFrom(<<>>, pairs)

\* urlencode(query_params, doseq=True) of a dict whose values are strings:
\* one key=value per entry, in the dict's order.
urlencode(d) == d

build_page_url_append(base_url, page) ==
    IF page = 1 THEN base_url
    ELSE [base_url EXCEPT !.query = Append(base_url.query, <<"page", str(page)>>)]
build_page_url(base_url, page) ==
    IF page = 1 THEN base_url
    ELSE LET query_params == dict(parse_qsl(base_url.query, TRUE)) IN
         [base_url EXCEPT !.query = urlencode(DictSet(query_params, "page", str(page)))]

\* for x in xs: if x not in ys: ys.append(x)
RECURSIVE AppendNew(_, _)
AppendNew(ys, xs) ==
    IF xs = <<>> THEN ys
    ELSE AppendNew(IF Head(xs) \in Range(ys) THEN ys ELSE Append(ys, Head(xs)), Tail(xs))

\* extract_ids_from_page: the candidates of the result links, each once.
extract_ids_from_page(elements) == AppendNew(<<>>, elements)

\* What a result page can show: the ids of up to two result links.
PageElements ==
    {<<>>} \cup {<<i>> : i \in CrawlIds} \cup (CrawlIds \X CrawlIds)

\* What a page request can come to: the driver fails, no result link
\* appears within the timeout, or the page shows its links.
PageOutcomes ==
    {[kind |-> "failure", elements |-> <<>>], [kind |-> "timeout", elements |-> <<>>]}
    \cup {[kind |-> "page", elements |-> e] : e \in PageElements}

NoCrawl ==
    [pc |-> "idle", base_url |-> NoUrl, max_pages |-> 0, limit |-> 0, page |-> 0,
     collected |-> <<>>, trace |-> <<>>, seen |-> <<>>, runs |-> 0,
     pre |-> EmptyDb, outcome |-> "none", ended |-> "none"]

(***************************************************************************)
(* The download command (cli/download_data.py).                            *)
(***************************************************************************)
\* def scrape_ad(driver, ad_id): the names the function can be called with.
scrape_ad_parameters == {"driver", "ad_id"}

\* scrape_ad(driver, ad_id, parse_aux_data=config.parse_aux_data): the
\* keyword arguments of the call in download_ads.
scrape_ad_keywords == {"parse_aux_data"}

\* A call binds its arguments before the body runs; a keyword the function
\* does not take raises TypeError.
BindsCall(keywords, parameters) == keywords \subseteq parameters

\* What scrape_ad comes to once it is entered: a WebDriverException of
\* driver.get, None when no h1 shows within the timeout, or an AdRecord.
ScrapeAdOutcomes ==
    {[kind |-> "driver_failure", payload |-> <<>>],
     [kind |-> "none", payload |-> <<>>]}
    \cup {[kind |-> "record", payload |-> p] : p \in Payloads}

\* What the call of scrape_ad in download_ads can come to: TypeError from
\* the call itself; otherwise what scrape_ad comes to.
ScrapeOutcomes ==
    IF ~BindsCall(scrape_ad_keywords, scrape_ad_parameters)
    THEN {[kind |-> "type_error", payload |-> <<>>]}
    ELSE ScrapeAdOutcomes

\* The exit status of the process: what run returns, or 1 when an
\* exception leaves it.
ExitStatusOfRun(raised) == IF raised THEN 1 ELSE 0

\* No download run has started.
NoDownload ==
    [pc |-> "idle", target_ids |-> <<>>, k |-> 0, scraped |-> 0, missing |-> 0,
     trace |-> <<>>, runs |-> 0, pre |-> EmptyDb, outcome |-> "none",
     ended |-> "none", exit |-> -1]

(***************************************************************************)
(* Configuration (cli/config.py).  A value of the JSON config file is      *)
(* absent, null or an integer.                                             *)
(***************************************************************************)
Omitted == [kind |-> "omitted", value |-> 0]
Null == [kind |-> "null", value |-> 0]
IntValue(n) == [kind |-> "int", value |-> n]

RawValues == {Omitted, Null} \cup {IntValue(n) : n \in -1..2}

\* Field(default=200, ge=1), Field(default=25, ge=1), Field(default=25, ge=1)
FetchIdsLimitDefault == 200
FetchIdsMaxPagesDefault == 25
DownloadLimitDefault == 25

\* ge=1
GeIgnored(v, bound) == TRUE
Ge(v, bound) == v >= bound

\* name: int = Field(default=d, ge=1)
IntField(raw, default) ==
    IF raw.kind = "omitted" THEN [ok |-> TRUE, value |-> default]
    ELSE IF raw.kind = "null" THEN [ok |-> FALSE, value |-> 0]
    ELSE [ok |-> Ge(raw.value, 1), value |-> raw.value]

\* name: int | None = Field(default=None, ge=1)
OptionalIntField(raw) ==
    IF raw.kind \in {"omitted", "null"} THEN [ok |-> TRUE, value |-> None]
    ELSE [ok |-> Ge(raw.value, 1), value |-> Some(raw.value)]

NoConfig == [limit |-> 0, max_pages |-> 0, stale_hours |-> None]

\* FetchIdsConfig.model_validate_json(raw)
FetchIdsConfig(raw) ==
    LET limit == IntField(raw.limit, FetchIdsLimitDefault)
        max_pages == IntField(raw.max_pages, FetchIdsMaxPagesDefault)
    IN IF limit.ok /\ max_pages.ok
       THEN [ok |-> TRUE, config |-> [limit |-> limit.value,
                                       max_pages |-> max_pages.value,
                                       stale_hours |-> None]]
       ELSE [ok |-> FALSE, config |-> NoConfig]

\* DownloadConfig.model_validate_json(raw)
DownloadConfig(raw) ==
    LET limit == IntField(raw.limit, DownloadLimitDefault)
        stale_hours == OptionalIntField(raw.stale_hours)
    IN IF limit.ok /\ stale_hours.ok
       THEN [ok |-> TRUE, config |-> [limit |-> limit.value, max_pages |-> 0,
                                       stale_hours |-> stale_hours.value]]
       ELSE [ok |-> FALSE, config |-> NoConfig]

\* load_config(path, model_cls)
load_config(raw, model_cls) ==
    IF model_cls = "FetchIdsConfig" THEN FetchIdsConfig(raw) ELSE DownloadConfig(raw)

\* The config files the model draws from: the keys a command reads, each
\* absent, null or an integer.
RawConfigs(model_cls) ==
    IF model_cls = "FetchIdsConfig"
    THEN {[limit |-> l, max_pages |-> m, stale_hours |-> Omitted] :
             l \in RawValues, m \in RawValues}
    ELSE {[limit |-> l, max_pages |-> Omitted, stale_hours |-> h] :
             l \in RawValues, h \in RawValues}

\* No command has been given.
NoCommand ==
    [pc |-> "idle", model_cls |-> "none",
     raw |-> [limit |-> Omitted, max_pages |-> Omitted, stale_hours |-> Omitted],
     config |-> NoConfig, driver |-> FALSE, ledger |-> FALSE, exit |-> -1]

(***************************************************************************)
(* The detail scraper (scraper.py).  A text is a sequence of tokens: a     *)
(* whitespace character, a colon, a digit, or a word standing for its      *)
(* letters.  A page is what the driver finds on it: the h1 (None: no h1    *)
(* within the timeout), the subtitle paragraph, the price span under       *)
(* "Totalpris", and the .key-info-section, a list of dl elements each with *)
(* the texts of its dt and of its dd elements.  Of the record's 34 fields  *)
(* the model keeps title, subtitle, totalpris, one text field read from    *)
(* key_info (merke) and one integer field read from it (seter).            *)
(***************************************************************************)
NBSP == "U+00A0"
NNBSP == "U+202F"
Whitespace == {" ", "\n", NBSP, NNBSP}

\* text.strip()
RECURSIVE lstrip(_)
lstrip(text) ==
    IF text # <<>> /\ Head(text) \in Whitespace THEN lstrip(Tail(text)) ELSE text
RECURSIVE rstrip(_, _)
rstrip(text, chars) ==
    IF text # <<>> /\ text[Len(text)] \in chars
    THEN rstrip(SubSeq(text, 1, Len(text) - 1), chars) ELSE text
strip(text) == rstrip(lstrip(text), Whitespace)

\* text.split(): the runs of tokens between whitespace
RECURSIVE split(_)
split(text) ==
    LET t == lstrip(text)
        n == IF \E k \in DOMAIN t : t[k] \in Whitespace
             THEN (CHOOSE k \in DOMAIN t :
                       /\ t[k] \in Whitespace
                       /\ \A j \in 1..(k - 1) : t[j] \notin Whitespace) - 1
             ELSE Len(t)
    IN  IF t = <<>> THEN <<>>
        ELSE <<SubSeq(t, 1, n)>> \o split(SubSeq(t, n + 1, Len(t)))

\* " ".join(words)
RECURSIVE join(_)
join(words) ==
    IF words = <<>> THEN <<>>
    ELSE IF Len(words) = 1 THEN words[1]
    ELSE words[1] \o <<" ">> \o join(Tail(words))

\* text.splitlines()[0] of a text that is not empty
first_line(text) ==
    IF \E k \in DOMAIN text : text[k] = "\n"
    THEN SubSeq(text, 1, (CHOOSE k \in DOMAIN text :
                              /\ text[k] = "\n"
                              /\ \A j \in 1..(k - 1) : text[j] # "\n") - 1)
    ELSE text

\* _text_or_none: None if the element is absent or its stripped text empty
text_or_none(element) ==
    IF element = None THEN None
    ELSE IF strip(element[1]) = <<>> THEN None ELSE Some(strip(element[1]))

\* _get_text_content: stripped, no-break spaces to spaces, whitespace runs
\* to one space
get_text_content(text) ==
    LET raw_text == strip(text)
        normalized == [k \in DOMAIN raw_text |->
                          IF raw_text[k] \in {NBSP, NNBSP} THEN " " ELSE raw_text[k]]
    IN  join(split(normalized))

\* int(digits)
RECURSIVE int(_)
int(digits) ==
    IF digits = <<>> THEN 0
    ELSE 10 * int(SubSeq(digits, 1, Len(digits) - 1))
         + (CHOOSE d \in 0..9 : DigitChar[d + 1] = digits[Len(digits)])

\* _parse_int(value): value is None or Some(text)
parse_int(value) ==
    IF value = None \/ value = Some(<<>>) THEN None
    ELSE LET IsDigit(ch) == ch \in Range(DigitChar)
             digits == SelectSeq(value[1], IsDigit)
         IN  IF digits = <<>> THEN None ELSE Some(int(digits))

\* key_info.get(key)
dict_get(d, key) ==
    IF \E k \in DOMAIN d : d[k][1] = key
    THEN Some(d[CHOOSE k \in DOMAIN d : d[k][1] = key][2])
    ELSE None

\* zip(keys, values) of one dl, entered into key_info
RECURSIVE extract_pairs(_, _, _)
extract_pairs(key_info, keys, values) ==
    IF keys = <<>> \/ values = <<>> THEN key_info
    ELSE LET raw_key == strip(Head(keys))
             raw_value == get_text_content(Head(values))
             key == rstrip(strip(first_line(raw_key)), {":"})
             entered ==
                 IF raw_key = <<>> \/ raw_value = <<>> THEN key_info
                 ELSE IF key # <<>> /\ dict_get(key_info, key) = None
                      THEN Append(key_info, <<key, raw_value>>)
                      ELSE key_info
         IN  extract_pairs(entered, Tail(keys), Tail(values))

\* _extract_key_info(root): root is the list of the section's dl elements
RECURSIVE extract_key_info_from(_, _)
extract_key_info_from(key_info, root) ==
    IF root = <<>> THEN key_info
    ELSE LET dl_el == Head(root) IN
         extract_key_info_from(
             IF Len(dl_el.dt) # Len(dl_el.dd) THEN key_info
             ELSE extract_pairs(key_info, dl_el.dt, dl_el.dd),
             Tail(root))
extract_key_info(root) == extract_key_info_from(<<>>, root)

\* FIELD_MAPPING, for the two fields the model keeps
FIELD_MAPPING == [merke |-> <<"Merke">>, seter |-> <<"Seter">>]

\* The pages the model draws from.
H1Elements == {None, Some(<<>>), Some(<<" ", "Tesla">>)}
SubtitleElements == {None, Some(<<"Long", NBSP, "Range">>)}
PriceElements == {None, Some(<<"1", NBSP, "0", " ", "kr">>), Some(<<"kr">>)}
Dl(dt, dd) == [dt |-> dt, dd |-> dd]
KeyInfoSections ==
    { None,
      Some(<<>>),
      Some(<< Dl(<< <<"Merke">>, <<"Seter">> >>, << <<"Tesla">>, <<"5">> >>) >>),
      Some(<< Dl(<< <<"Merke", ":">>, <<"Seter", "\n", "antall">> >>,
                 << <<"Tesla">>, <<" ", "5", NBSP, "stk">> >>),
              Dl(<< <<"Ekstra">> >>, << <<"x">> >>) >>),
      Some(<< Dl(<< <<"Merke">> >>, << <<"Tesla">> >>),
              Dl(<< <<"Merke">>, <<"Farge">> >>, << <<"Audi">>, <<>> >>) >>),
      Some(<< Dl(<< <<"Merke">>, <<"Seter">> >>, << <<"Tesla">> >>) >>),
      Some(<< Dl(<< <<>>, <<"Seter">> >>, << <<"x">>, <<"fem">> >>) >>) }
HtmlPages ==
    [h1 : H1Elements, subtitle : SubtitleElements, price : PriceElements,
     key_info_section : KeyInfoSections]

\* scrape_ad(driver, ad_id), the driver showing page: None, or Some(record)
scrape_ad(page, ad_id) ==
    IF page.h1 = None THEN None
    ELSE LET title == text_or_none(page.h1)
             subtitle == IF page.subtitle = None THEN None
                         ELSE IF get_text_content(page.subtitle[1]) = <<>> THEN None
                         ELSE Some(get_text_content(page.subtitle[1]))
             totalpris == IF page.price = None THEN None
                          ELSE parse_int(Some(get_text_content(page.price[1])))
             key_info == IF page.key_info_section = None THEN <<>>
                         ELSE extract_key_info(page.key_info_section[1])
         IN  Some(AdRecord(ad_id, localnow,
                           [title |-> title, totalpris |-> totalpris, specs |-> key_info])
                  @@ [subtitle |-> subtitle,
                      merke |-> dict_get(key_info, FIELD_MAPPING.merke),
                      seter |-> parse_int(dict_get(key_info, FIELD_MAPPING.seter))])

(***************************************************************************)
(* Steps.                                                                  *)
(***************************************************************************)
Batches ==
    {<<i>> : i \in Ids} \cup {s \in Ids \X Ids : s[1] # s[2]}

NoStep == [op |-> "init", ok |-> TRUE, ids |-> {}, arg |-> <<>>, pre |-> EmptyDb]

Init ==
    /\ ad_ids = <<>>
    /\ ad_details = <<>>
    /\ now = StartHour
    /\ tz \in TzOffsets
    /\ steps = 0
    /\ last = NoStep
    /\ scen = 0
    /\ crawl = NoCrawl
    /\ dl = NoDownload
    /\ conf = NoCommand

Commit(outcome) ==
    LET D == db_session(Db, outcome) IN
    /\ ad_ids' = D.ids
    /\ ad_details' = D.details

\* The host's clock advances.
Tick ==
    /\ now < StartHour + MaxTicks
    /\ now' = now + 1
    /\ last' = [op |-> "tick", ok |-> TRUE, ids |-> {}, arg |-> <<>>, pre |-> Db]
    /\ UNCHANGED <<ad_ids, ad_details, tz, steps, scen, crawl, dl, conf>>

\* fetch_ids_into_db: with db_session(db_path) as conn: upsert_ad_ids(...)
Discover(source_url, batch, fetched_by) ==
    /\ Commit(upsert_ad_ids(Db, source_url, batch, fetched_by))
    /\ last' = [op |-> "upsert", ok |-> TRUE, ids |-> Range(batch),
                arg |-> <<source_url, fetched_by>>, pre |-> Db]
    /\ UNCHANGED <<now, tz>>

\* download_ads: with db_session(db_path) as conn: save_ad_detail(conn, record)
IngestSuccess(record, fault) ==
    LET outcome == save_ad_detail(Db, record, fault) IN
    /\ Commit(outcome)
    /\ last' = [op |-> "save", ok |-> ~outcome.raised, ids |-> {record.ad_id},
                arg |-> record, pre |-> Db]
    /\ UNCHANGED <<now, tz>>

\* download_ads: with db_session(db_path) as conn: mark_missing(conn, ad_id)
IngestFailure(ad_id) ==
    LET outcome == mark_missing(Db, ad_id) IN
    /\ Commit(outcome)
    /\ last' = [op |-> "mark_missing", ok |-> ~outcome.raised, ids |-> {ad_id},
                arg |-> <<>>, pre |-> Db]
    /\ UNCHANGED <<now, tz>>

UpsertAdIds ==
    /\ steps < MaxSteps
    /\ steps' = steps + 1
    /\ \E u \in SourceUrls, batch \in Batches :
           Discover(u, batch, IF u = "url1" THEN "finn_search" ELSE "unknown")
    /\ UNCHANGED <<scen, crawl, dl, conf>>

SaveAdDetail ==
    /\ steps < MaxSteps
    /\ steps' = steps + 1
    /\ \E i \in Ids, p \in Payloads, fault \in BOOLEAN :
           IngestSuccess(AdRecord(i, localnow, p), fault)
    /\ UNCHANGED <<scen, crawl, dl, conf>>

MarkMissing ==
    /\ steps < MaxSteps
    /\ steps' = steps + 1
    /\ \E i \in Ids : IngestFailure(i)
    /\ UNCHANGED <<scen, crawl, dl, conf>>

\* download_ads: with db_session(db_path) as conn: fetch_ids_for_scraping(...)
\* The query writes nothing; what it returns, for each choice of arguments,
\* is fetch_ids_for_scraping(Db, ...) in the state the step leaves.
FetchIdsForScraping ==
    /\ Commit([raised |-> FALSE, db |-> initialize_schema(Db)])
    /\ last' = [op |-> "select", ok |-> TRUE, ids |-> {}, arg |-> <<>>, pre |-> Db]
    /\ UNCHANGED <<now, tz, steps, scen, crawl, dl, conf>>

Next ==
    \/ Tick
    \/ FetchIdsForScraping
    \/ UpsertAdIds
    \/ SaveAdDetail
    \/ MarkMissing

Spec == Init /\ [][Next]_vars

(***************************************************************************)
(* The end-to-end scenario: discover a, b, c from url1; fetch a; b is not  *)
(* found; discover again from url1, which now lists a and b only.  The     *)
(* clock may advance between any two steps.                                *)
(***************************************************************************)
ScenDiscover ==
    /\ scen = 0
    /\ Discover("url1", <<"a", "b", "c">>, "finn_search")
    /\ scen' = 1
    /\ steps' = steps + 1
    /\ UNCHANGED <<crawl, dl, conf>>

ScenFetchA ==
    /\ scen = 1
    /\ \E p \in Payloads : IngestSuccess(AdRecord("a", localnow, p), FALSE)
    /\ scen' = 2
    /\ steps' = steps + 1
    /\ UNCHANGED <<crawl, dl, conf>>

ScenMissingB ==
    /\ scen = 2
    /\ IngestFailure("b")
    /\ scen' = 3
    /\ steps' = steps + 1
    /\ UNCHANGED <<crawl, dl, conf>>

ScenRediscover ==
    /\ scen = 3
    /\ Discover("url1", <<"a", "b">>, "finn_search")
    /\ scen' = 4
    /\ steps' = steps + 1
    /\ UNCHANGED <<crawl, dl, conf>>

NextScenario ==
    \/ Tick
    \/ ScenDiscover
    \/ ScenFetchA
    \/ ScenMissingB
    \/ ScenRediscover

SpecScenario == Init /\ [][NextScenario]_vars

(***************************************************************************)
(* Runs of fetch_ids_into_db, one after another.  crawl.trace lists what   *)
(* the run asked of the driver: <<"get", page, url>>, <<"delay", ..>> for  *)
(* polite_delay and <<"quit", ..>>.  crawl.seen lists the ids extracted    *)
(* from the pages so far, in order; crawl.pre is the ledger at the start.  *)
(***************************************************************************)
Event(kind, page, url) == <<kind, page, url>>

\* wait_for_elements: TimeoutException is caught and becomes False; any
\* other driver exception leaves the call.
wait_for_elements_uncaught(o) == IF o.kind = "page" THEN "true" ELSE "raise"
wait_for_elements(o) ==
    IF o.kind = "failure" THEN "raise"
    ELSE IF o.kind = "timeout" THEN "false" ELSE "true"

\* for ad_id in page_ids: if ad_id not in collected: collected.append(ad_id)
MergeAll(collected, page_ids) == collected \o page_ids
Merge(collected, page_ids) == AppendNew(collected, page_ids)

\* collected[:limit]
TruncateNone(collected, limit) == collected
Truncate(collected, limit) == SubSeq(collected, 1, Min(limit, Len(collected)))

\* for page in range(1, max_pages + 1): the page after this one.
NextPageSame(page) == page
NextPage(page) == page + 1

\* polite_delay() at the end of the loop body.
DelayAfter(page, max_pages) == <<Event("delay", page, NoUrl)>>

\* finally: driver.quit()
FinallyNothing(page) == <<>>
Finally(page) == <<Event("quit", page, NoUrl)>>

\* What reaches the ledger when the driver fails during collect_ad_ids:
\* the exception leaves fetch_ids_into_db before its upsert session.
PersistOnFailurePartial(D, base_url, collected) ==
    IF collected = <<>> THEN D
    ELSE db_session(D, upsert_ad_ids(D, base_url, collected, "finn_search"))
PersistOnFailure(D, base_url, collected) == D

\* fetch_ids_into_db up to the call of collect_ad_ids.
CrawlStart ==
    /\ crawl.pc = "idle"
    /\ crawl.runs < MaxRuns
    /\ \E base_url \in BaseUrls, max_pages \in 1..MaxPages,
          limit \in 1..Cardinality(CrawlIds) :
           crawl' = [pc |-> "loop", base_url |-> base_url, max_pages |-> max_pages,
                     limit |-> limit, page |-> 1, collected |-> <<>>,
                     trace |-> <<>>, seen |-> <<>>, runs |-> crawl.runs + 1,
                     pre |-> initialize_schema(Db), outcome |-> "none",
                     ended |-> "none"]
    /\ Commit([raised |-> FALSE, db |-> initialize_schema(Db)])
    /\ last' = [op |-> "crawl", ok |-> TRUE, ids |-> {}, arg |-> <<>>, pre |-> Db]
    /\ UNCHANGED <<now, tz, steps, scen, dl, conf>>

\* One pass of the loop body of collect_ad_ids.
CrawlPage ==
    /\ crawl.pc = "loop"
    /\ \E o \in PageOutcomes :
        LET page_url == build_page_url(crawl.base_url, crawl.page)
            get == <<Event("get", crawl.page, page_url)>>
            rendered == wait_for_elements(o)
            page_ids == extract_ids_from_page(o.elements)
            collected == Merge(crawl.collected, page_ids)
            cause == IF o.kind = "page" /\ page_ids = <<>> THEN "empty" ELSE o.kind
        IN
        IF rendered = "raise"
        THEN \* finally: driver.quit(); the exception leaves fetch_ids_into_db
             /\ crawl' = [crawl EXCEPT !.pc = "idle", !.outcome = "raised",
                              !.ended = cause,
                              !.trace = @ \o get \o Finally(crawl.page)]
             /\ LET D == PersistOnFailure(Db, crawl.base_url, crawl.collected) IN
                ad_ids' = D.ids /\ ad_details' = D.details
        ELSE /\ UNCHANGED <<ad_ids, ad_details>>
             /\ IF rendered = "false" \/ page_ids = <<>>
                THEN \* break
                     crawl' = [crawl EXCEPT !.pc = "after", !.ended = cause,
                                  !.trace = @ \o get]
                ELSE IF Len(collected) >= crawl.limit
                THEN \* return collected[:limit]
                     crawl' = [crawl EXCEPT !.pc = "after", !.ended = "limit",
                                  !.trace = @ \o get,
                                  !.seen = @ \o page_ids,
                                  !.collected = Truncate(collected, crawl.limit)]
                ELSE crawl' = [crawl EXCEPT
                                  !.pc = IF crawl.page < crawl.max_pages
                                         THEN "loop" ELSE "after",
                                  !.ended = IF crawl.page < crawl.max_pages
                                            THEN "none" ELSE "max_pages",
                                  !.page = NextPage(crawl.page),
                                  !.trace = @ \o get \o DelayAfter(crawl.page, crawl.max_pages),
                                  !.seen = @ \o page_ids,
                                  !.collected = collected]
    /\ last' = [op |-> "page", ok |-> crawl'.outcome # "raised", ids |-> {},
                arg |-> <<>>, pre |-> Db]
    /\ UNCHANGED <<now, tz, steps, scen, dl, conf>>

\* fetch_ids_into_db after collect_ad_ids returned: driver.quit(), then the
\* upsert session unless nothing was collected.
CrawlFinish ==
    /\ crawl.pc = "after"
    /\ crawl' = [crawl EXCEPT !.pc = "idle", !.outcome = "returned",
                     !.trace = @ \o Finally(crawl.page)]
    /\ IF crawl.collected = <<>>
       THEN /\ UNCHANGED <<ad_ids, ad_details>>
            /\ last' = [op |-> "crawled", ok |-> TRUE, ids |-> {}, arg |-> <<>>, pre |-> Db]
       ELSE Discover(crawl.base_url, crawl.collected, "finn_search")
    /\ UNCHANGED <<now, tz, steps, scen, dl, conf>>

NextCrawl ==
    \/ CrawlStart
    \/ CrawlPage
    \/ CrawlFinish

SpecCrawl == Init /\ [][NextCrawl]_vars

\* The first run alone: collect_ad_ids never reads the ledger.
CrawlFirstStart == crawl.runs = 0 /\ CrawlStart

NextCrawlOnce ==
    \/ CrawlFirstStart
    \/ CrawlPage
    \/ CrawlFinish

\* Each pass of the loop body completes.
SpecCrawlLive == Init /\ [][NextCrawlOnce]_vars /\ WF_vars(CrawlPage)

(***************************************************************************)
(* Runs of the download command.  dl.trace lists what the run asked of the *)
(* driver and the ledger, in order; dl.pre is the ledger at the start.     *)
(***************************************************************************)
\* run and download_ads up to the loop: the select session, the early
\* return on an empty selection, create_driver.
DownloadStart ==
    /\ dl.pc \in {"idle", "done"}
    /\ dl.runs < MaxRuns
    /\ \E limit \in Limits, stale_hours \in StaleHours, random_order \in BOOLEAN :
       \E target_ids \in fetch_ids_for_scraping(initialize_schema(Db), limit,
                                                stale_hours, random_order) :
           dl' = IF target_ids = <<>>
                 THEN [NoDownload EXCEPT !.pc = "done", !.runs = dl.runs + 1,
                          !.pre = initialize_schema(Db), !.outcome = "returned",
                          !.ended = "nothing_selected",
                          !.exit = ExitStatusOfRun(FALSE)]
                 ELSE [NoDownload EXCEPT !.pc = "loop", !.runs = dl.runs + 1,
                          !.pre = initialize_schema(Db), !.target_ids = target_ids,
                          !.k = 1, !.trace = <<<<"create_driver", "">>>>]
    /\ Commit([raised |-> FALSE, db |-> initialize_schema(Db)])
    /\ last' = [op |-> "select", ok |-> TRUE, ids |-> {}, arg |-> <<>>, pre |-> Db]
    /\ UNCHANGED <<now, tz, steps, scen, crawl, conf>>

\* The end of a pass of the loop that goes on to the next id, or out of the
\* loop after the last: finally driver.quit(); return scraped, missing; run
\* prints the counts and returns 0.
Advance(d) ==
    IF d.k < Len(d.target_ids)
    THEN [d EXCEPT !.k = d.k + 1]
    ELSE [d EXCEPT !.pc = "done", !.outcome = "returned", !.ended = "exhausted",
                   !.trace = @ \o <<<<"quit", "">>>>,
                   !.exit = ExitStatusOfRun(FALSE)]

\* except WebDriverException: print(...); break; then finally
\* driver.quit() and return scraped, missing.
OnWebDriverExceptionContinue(d, ad_id) ==
    [d EXCEPT !.k = IF d.k < Len(d.target_ids) THEN d.k + 1 ELSE d.k,
              !.pc = IF d.k < Len(d.target_ids) THEN "loop" ELSE "done",
              !.ended = "driver_failure",
              !.trace = @ \o <<<<"get", ad_id>>>>]
OnWebDriverException(d, ad_id) ==
    [d EXCEPT !.pc = "done", !.outcome = "returned",
              !.ended = "driver_failure",
              !.trace = @ \o <<<<"get", ad_id>>, <<"quit", "">>>>,
              !.exit = ExitStatusOfRun(FALSE)]

\* One pass of the loop body of download_ads, the call of scrape_ad coming
\* to o.
DownloadPass(o) ==
        LET ad_id == dl.target_ids[dl.k] IN
        IF o.kind = "type_error"
        THEN \* finally: driver.quit(); the exception leaves download_ads and run
             /\ dl' = [dl EXCEPT !.pc = "done", !.outcome = "raised",
                          !.ended = "type_error",
                          !.trace = @ \o <<<<"quit", "">>>>,
                          !.exit = ExitStatusOfRun(TRUE)]
             /\ last' = [op |-> "scrape", ok |-> FALSE, ids |-> {ad_id},
                         arg |-> <<>>, pre |-> Db]
             /\ UNCHANGED <<ad_ids, ad_details, now, tz>>
        ELSE IF o.kind = "driver_failure"
        THEN \* except WebDriverException: print; break
             /\ dl' = OnWebDriverException(dl, ad_id)
             /\ last' = [op |-> "scrape", ok |-> FALSE, ids |-> {ad_id},
                         arg |-> <<>>, pre |-> Db]
             /\ UNCHANGED <<ad_ids, ad_details, now, tz>>
        ELSE IF o.kind = "none"
        THEN \* mark_missing session; missing += 1; continue
             /\ IngestFailure(ad_id)
             /\ dl' = Advance([dl EXCEPT !.missing = @ + 1,
                                  !.trace = @ \o <<<<"get", ad_id>>,
                                                   <<"mark_missing", ad_id>>>>])
        ELSE \* save_ad_detail session; scraped += 1; polite_delay()
             /\ IngestSuccess(AdRecord(ad_id, localnow, o.payload), FALSE)
             /\ dl' = Advance([dl EXCEPT !.scraped = @ + 1,
                                  !.trace = @ \o <<<<"get", ad_id>>,
                                                   <<"save", ad_id>>,
                                                   <<"delay", "">>>>])

DownloadItem ==
    /\ dl.pc = "loop"
    /\ \E o \in ScrapeOutcomes : DownloadPass(o)
    /\ UNCHANGED <<steps, scen, crawl, conf>>

\* The discovery command, run between two download runs.
DiscoverBetweenRuns == dl.pc # "loop" /\ UpsertAdIds

NextDownload ==
    \/ Tick
    \/ DiscoverBetweenRuns
    \/ DownloadStart
    \/ DownloadItem

SpecDownload == Init /\ [][NextDownload]_vars

(***************************************************************************)
(* The batch past the call: the loop of download_ads with the outcomes     *)
(* that scrape_ad has once it is entered (a WebDriverException of          *)
(* driver.get, None, an AdRecord).                                         *)
(***************************************************************************)
\* The discovery command run on one search url.
DiscoverSameSearch ==
    /\ steps < MaxSteps
    /\ steps' = steps + 1
    /\ \E batch \in Batches : Discover("url1", batch, "finn_search")
    /\ UNCHANGED <<scen, crawl, dl, conf>>

\* That command, run between two download runs.
RediscoverBetweenRuns == dl.pc # "loop" /\ DiscoverSameSearch

DownloadItemEntered ==
    /\ dl.pc = "loop"
    /\ \E o \in ScrapeAdOutcomes : DownloadPass(o)
    /\ UNCHANGED <<steps, scen, crawl, conf>>

\* An hour passes after the first run.
TickBetweenRuns == dl.pc = "done" /\ dl.runs = 1 /\ now = StartHour /\ Tick

NextBatch ==
    \/ TickBetweenRuns
    \/ RediscoverBetweenRuns
    \/ DownloadStart
    \/ DownloadItemEntered

SpecBatch == Init /\ [][NextBatch]_vars

(***************************************************************************)
(* The download command repeated under one configuration with a staleness  *)
(* window and chronological order, every request coming to a record or to  *)
(* no ad (no driver failure).  conf holds the configuration.               *)
(***************************************************************************)
\* run: config = load_config(args.config, DownloadConfig)
LoadDownloadConfig ==
    /\ conf.pc = "idle"
    /\ \E limit \in Limits, stale_hours \in StaleHours \ {None} :
           conf' = [NoCommand EXCEPT !.pc = "running", !.model_cls = "DownloadConfig",
                        !.config = [limit |-> limit, max_pages |-> 0,
                                    stale_hours |-> stale_hours]]
    /\ UNCHANGED <<ad_ids, ad_details, now, tz, steps, last, scen, crawl, dl>>

\* download_ads(config) up to the loop, run again after the run before it
\* has ended.
RepeatedRun ==
    /\ conf.pc = "running"
    /\ dl.pc \in {"idle", "done"}
    /\ \E target_ids \in fetch_ids_for_scraping(initialize_schema(Db), conf.config.limit,
                                                conf.config.stale_hours, FALSE) :
           dl' = IF target_ids = <<>>
                 THEN [NoDownload EXCEPT !.pc = "done", !.runs = 1,
                          !.pre = initialize_schema(Db), !.outcome = "returned",
                          !.ended = "nothing_selected",
                          !.exit = ExitStatusOfRun(FALSE)]
                 ELSE [NoDownload EXCEPT !.pc = "loop", !.runs = 1,
                          !.pre = initialize_schema(Db), !.target_ids = target_ids,
                          !.k = 1, !.trace = <<<<"create_driver", "">>>>]
    /\ Commit([raised |-> FALSE, db |-> initialize_schema(Db)])
    /\ last' = [op |-> "select", ok |-> TRUE, ids |-> {}, arg |-> <<>>, pre |-> Db]
    /\ UNCHANGED <<now, tz, steps, scen, crawl, conf>>

\* A pass of the loop whose request is answered.
DownloadItemIngested ==
    /\ dl.pc = "loop"
    /\ \E o \in ScrapeAdOutcomes : o.kind # "driver_failure" /\ DownloadPass(o)
    /\ UNCHANGED <<steps, scen, crawl, conf>>

\* Time passes between two runs.
TickOutsideRuns == dl.pc = "done" /\ Tick

\* The discovery command, run before the download command is first run.
DiscoverFirst == conf.pc = "idle" /\ DiscoverSameSearch

NextRepeated ==
    \/ LoadDownloadConfig
    \/ DiscoverFirst
    \/ TickOutsideRuns
    \/ RepeatedRun
    \/ DownloadItemIngested

\* The runs are repeated and each pass of the loop completes.
SpecRepeated ==
    /\ Init
    /\ [][NextRepeated]_vars
    /\ WF_vars(RepeatedRun)
    /\ WF_vars(DownloadItemIngested)

(***************************************************************************)
(* The ledger under every session that can reach it: the steps of Spec, an *)
(* upsert session that fails part-way, and deletion of an identity row by  *)
(* maintenance outside the commands.                                       *)
(***************************************************************************)
UpsertAdIdsRaising ==
    /\ steps < MaxSteps
    /\ steps' = steps + 1
    /\ \E u \in SourceUrls, batch \in Batches :
       \E k \in 1..Len(batch) :
           /\ Commit(upsert_ad_ids_raising(Db, u, batch, "finn_search", k))
           /\ last' = [op |-> "upsert", ok |-> FALSE, ids |-> Range(batch),
                       arg |-> <<u, "finn_search", k>>, pre |-> Db]
    /\ UNCHANGED <<now, tz, scen, crawl, dl, conf>>

DeleteAdId ==
    /\ steps < MaxSteps
    /\ steps' = steps + 1
    /\ \E i \in Ids :
           /\ Commit(delete_ad_id(Db, i))
           /\ last' = [op |-> "delete", ok |-> TRUE, ids |-> {i},
                       arg |-> <<>>, pre |-> Db]
    /\ UNCHANGED <<now, tz, scen, crawl, dl, conf>>

NextLedger ==
    \/ Tick
    \/ UpsertAdIds
    \/ UpsertAdIdsRaising
    \/ SaveAdDetail
    \/ MarkMissing
    \/ DeleteAdId

SpecLedger == Init /\ [][NextLedger]_vars

(***************************************************************************)
(* A command from its start: run loads the configuration, then opens the   *)
(* ledger and creates the driver.                                          *)
(***************************************************************************)
\* run_cli: the handler of fetch-ids or download is called with a config file.
RunCommand ==
    /\ conf.pc = "idle"
    /\ \E model_cls \in {"FetchIdsConfig", "DownloadConfig"} :
       \E raw \in RawConfigs(model_cls) :
           conf' = [NoCommand EXCEPT !.pc = "load", !.model_cls = model_cls,
                                     !.raw = raw]
    /\ UNCHANGED <<ad_ids, ad_details, now, tz, steps, last, scen, crawl, dl>>

\* run: config = load_config(args.config, ...); a ValidationError leaves run.
LoadConfig ==
    /\ conf.pc = "load"
    /\ LET loaded == load_config(conf.raw, conf.model_cls) IN
       conf' = IF loaded.ok
               THEN [conf EXCEPT !.pc = "loaded", !.config = loaded.config]
               ELSE [conf EXCEPT !.pc = "rejected",
                                 !.exit = ExitStatusOfRun(TRUE)]
    /\ UNCHANGED <<ad_ids, ad_details, now, tz, steps, last, scen, crawl, dl>>

\* fetch_ids_into_db / download_ads: the first ledger session
\* (initialize_schema), then create_driver; download_ads creates no driver
\* when nothing is selected.
OpenLedgerAndDriver ==
    /\ conf.pc = "loaded"
    /\ conf' = [conf EXCEPT !.pc = "running", !.ledger = TRUE,
                   !.driver = \/ conf.model_cls = "FetchIdsConfig"
                              \/ \E target_ids \in fetch_ids_for_scraping(
                                     initialize_schema(Db), conf.config.limit,
                                     conf.config.stale_hours, FALSE) :
                                     target_ids # <<>>]
    /\ Commit([raised |-> FALSE, db |-> initialize_schema(Db)])
    /\ UNCHANGED <<now, tz, steps, last, scen, crawl, dl>>

NextConfig ==
    \/ RunCommand
    \/ LoadConfig
    \/ OpenLedgerAndDriver

SpecConfig == Init /\ [][NextConfig]_vars

(***************************************************************************)
(* scrape_ad on its own: the driver is shown a page and the function's     *)
(* result is kept in last.arg, beside the page it was computed from.       *)
(***************************************************************************)
ScrapeAd ==
    \E page \in HtmlPages, ad_id \in Ids :
        /\ last' = [op |-> "scrape_ad", ok |-> scrape_ad(page, ad_id) # None,
                    ids |-> {ad_id},
                    arg |-> [page |-> page, record |-> scrape_ad(page, ad_id)],
                    pre |-> Db]
        /\ UNCHANGED <<ad_ids, ad_details, now, tz, steps, scen, crawl, dl, conf>>

NextScraper ==
    \/ Tick
    \/ ScrapeAd

SpecScraper == Init /\ [][NextScraper]_vars

(***************************************************************************)
(* The two commands, one run of each, one after the other in either order. *)
(***************************************************************************)
CrawlCommand == dl.pc # "loop" /\ CrawlFirstStart

DownloadCommand == crawl.pc = "idle" /\ dl.runs = 0 /\ DownloadStart

NextCommands ==
    \/ CrawlCommand
    \/ CrawlPage
    \/ CrawlFinish
    \/ DownloadCommand
    \/ DownloadItem

SpecCommands == Init /\ [][NextCommands]_vars

(***************************************************************************)
(* Properties.  In a state that a ledger step has just left, last names    *)
(* the step and last.pre is the committed ledger it started from.          *)
(***************************************************************************)
Target == CHOOSE i \in last.ids : TRUE

\* The hour that a stored timestamp text denotes.
RECURSIVE HourOf(_)
HourOf(text) ==
    IF text = <<>> THEN 0 ELSE 10 * HourOf(SubSeq(text, 1, Len(text) - 1)) + text[Len(text)]

\* C1: re-discovery (upsert_ad_ids) of an id already in the ledger sets its
\* status to pending if and only if the status was missing; a scraped or
\* pending record keeps its status.
C1_RediscoveryRevivesOnlyMissing ==
    last.op = "upsert" =>
        \A i \in last.ids \cap DOMAIN last.pre.ids :
            LET was == last.pre.ids[i].scrape_status
                is == ad_ids[i].scrape_status
            IN  /\ was = "missing" => is = "pending"
                /\ was \in {"scraped", "pending"} => is = was
                /\ (is = "pending" /\ was # "pending") <=> was = "missing"

C1_Witness ==
    /\ last.op = "upsert"
    /\ \E i \in last.ids \cap DOMAIN last.pre.ids :
           last.pre.ids[i].scrape_status = "missing"

\* C2: in the end-to-end scenario, a, b and c are pending after the first
\* discovery; a is scraped after its fetch; b is missing after its failed
\* fetch; after the second discovery (a and b only) a is still scraped, b
\* is pending and c is untouched: pending, its row as it was before the
\* second discovery, last_seen still the time of the first discovery.
C2_EndToEndScenario ==
    /\ scen = 1 => /\ DOMAIN ad_ids = {"a", "b", "c"}
                   /\ \A i \in DOMAIN ad_ids : ad_ids[i].scrape_status = "pending"
    /\ scen = 2 => ad_ids["a"].scrape_status = "scraped"
    /\ scen = 3 => ad_ids["b"].scrape_status = "missing"
    /\ scen = 4 => /\ ad_ids["a"].scrape_status = "scraped"
                   /\ ad_ids["b"].scrape_status = "pending"
                   /\ ad_ids["c"].scrape_status = "pending"
                   /\ ad_ids["c"].last_seen = ad_ids["c"].first_seen
                   /\ ad_ids["c"].first_seen = ad_ids["a"].first_seen
                   /\ last.op = "upsert" => ad_ids["c"] = last.pre.ids["c"]

\* The scenario has run to its end, the clock having advanced between the
\* two discoveries.
C2_Witness ==
    /\ scen = 4
    /\ last.op = "upsert"
    /\ ad_ids["a"].last_seen # ad_ids["a"].first_seen

\* C3: a save_ad_detail session that fails after the detail row is written
\* and before the identity row is updated commits neither write; in every
\* committed state a detail row has an identity row that an ingest updated.
C3_AtomicIngest ==
    /\ (last.op = "save" /\ ~last.ok) => Db = last.pre
    /\ \A i \in DOMAIN ad_details :
           /\ i \in DOMAIN ad_ids
           /\ ad_ids[i].last_scraped # None

\* The failure struck between the two statements (the id was known, so the
\* INSERT itself went through).
C3_Witness ==
    /\ last.op = "save"
    /\ ~last.ok
    /\ Target \in DOMAIN last.pre.ids

\* C4: save_ad_detail for an id the ledger knows leaves the detail row of
\* the given record, and the identity row with last_scraped = the record's
\* fetched_at and status scraped, whatever the status was.
C4_RecordSuccess ==
    (last.op = "save" /\ last.ok) =>
        LET record == last.arg
            i == record.ad_id
        IN  /\ i \in DOMAIN last.pre.ids
            /\ i \in DOMAIN ad_details
            /\ ad_details[i].fetched_at = isoformat(record.fetched_at)
            /\ ad_details[i].title = record.title
            /\ ad_details[i].totalpris = record.totalpris
            /\ ad_details[i].raw_spec_json = JsonDumps(record.specs)
            /\ \A p \in Payloads :
                   JsonDumps(p.specs) = ad_details[i].raw_spec_json => p.specs = record.specs
            /\ ad_ids[i].last_scraped = Some(isoformat(record.fetched_at))
            /\ ad_ids[i].scrape_status = "scraped"

C4_Witness ==
    /\ last.op = "save"
    /\ last.ok
    /\ last.pre.ids[Target].scrape_status = "missing"

\* C5: mark_missing for an id the ledger knows sets that row's status to
\* missing and its last_scraped to the current time and changes nothing
\* else: not the row's other columns, not its detail row, no other row.
C5_RecordFailureFrame ==
    (last.op = "mark_missing" /\ Target \in DOMAIN last.pre.ids) =>
        /\ last.ok
        /\ ad_ids = [last.pre.ids EXCEPT
                        ![Target].scrape_status = "missing",
                        ![Target].last_scraped = Some(isoformat(utcnow))]
        /\ ad_details = last.pre.details

C5_Witness ==
    /\ last.op = "mark_missing"
    /\ Target \in DOMAIN ad_details
    /\ \E j \in DOMAIN ad_ids : j # Target

\* C6: save_ad_detail for an id without an identity row raises and commits
\* nothing; no detail row without an identity row ever exists.
C6_UnknownIdSuccessFails ==
    /\ (last.op = "save" /\ Target \notin DOMAIN last.pre.ids) =>
           /\ ~last.ok
           /\ Db = last.pre
           /\ Target \notin DOMAIN ad_details
    /\ DOMAIN ad_details \subseteq DOMAIN ad_ids

C6_Witness ==
    /\ last.op = "save"
    /\ Target \notin DOMAIN last.pre.ids
    /\ DOMAIN last.pre.ids # {}

\* C7: mark_missing for an id without an identity row fails with an error.
C7_UnknownIdFailureFails ==
    (last.op = "mark_missing" /\ Target \notin DOMAIN last.pre.ids) => ~last.ok

\* C8: fetch_ids_for_scraping never returns an id whose status is missing,
\* for any limit, any staleness window or none, and either ordering.
C8_NeverSelectsMissing ==
    last.op = "select" =>
    \A limit \in Limits, stale_hours \in StaleHours, random_order \in BOOLEAN :
        \A result \in fetch_ids_for_scraping(Db, limit, stale_hours, random_order) :
            \A k \in DOMAIN result :
                /\ result[k] \in DOMAIN ad_ids
                /\ ad_ids[result[k]].scrape_status # "missing"

\* The query ran on a ledger holding a missing row that is stale enough for
\* a window of one hour, beside a row that it returns.
C8_Witness ==
    /\ last.op = "select"
    /\ \E i \in DOMAIN ad_ids :
           /\ ad_ids[i].scrape_status = "missing"
           /\ StaleClause(ad_ids[i], Some(1))
    /\ \E result \in fetch_ids_for_scraping(Db, 1, Some(1), FALSE) : result # <<>>

\* C9: without a staleness window the query returns only ids whose
\* last_scraped is NULL; last_scraped, once set, is never NULL again, so no
\* record that was ever ingested (saved or marked missing) is returned.
C9_FirstFetchMode ==
    /\ last.op = "select" =>
       \A limit \in Limits, random_order \in BOOLEAN :
           \A result \in fetch_ids_for_scraping(Db, limit, None, random_order) :
               \A k \in DOMAIN result : ad_ids[result[k]].last_scraped = None
    /\ \A i \in DOMAIN last.pre.ids :
           last.pre.ids[i].last_scraped # None =>
               i \in DOMAIN ad_ids /\ ad_ids[i].last_scraped # None
    /\ (last.op \in {"save", "mark_missing"} /\ last.ok /\ Target \in DOMAIN ad_ids) =>
           ad_ids[Target].last_scraped # None

\* The query ran on a ledger with a pending row that was ingested before
\* (marked missing, then re-discovered) beside a never-fetched row.
C9_Witness ==
    /\ last.op = "select"
    /\ \E i \in DOMAIN ad_ids :
           ad_ids[i].scrape_status = "pending" /\ ad_ids[i].last_scraped # None
    /\ \E result \in fetch_ids_for_scraping(Db, 2, None, FALSE) : result # <<>>

\* The rows a window of W hours makes eligible: not missing, and never
\* fetched or last fetched at or before now - W.
Eligible(W) ==
    {i \in DOMAIN ad_ids :
        /\ ad_ids[i].scrape_status # "missing"
        /\ \/ ad_ids[i].last_scraped = None
           \/ HourOf(ad_ids[i].last_scraped[1]) <= utcnow - W}

\* C10: with a staleness window W a non-missing record qualifies exactly
\* when its last_scraped is NULL or last_scraped <= now - W: the query
\* returns only such records, and all of them when the limit allows.
C10_RefetchMode ==
    last.op = "select" =>
    \A stale_hours \in StaleHours \ {None} :
        LET W == stale_hours[1] IN
        /\ Where(Db, stale_hours) = Eligible(W)
        /\ \A limit \in Limits, random_order \in BOOLEAN :
               \A result \in fetch_ids_for_scraping(Db, limit, stale_hours, random_order) :
                   /\ Range(result) \subseteq Eligible(W)
                   /\ limit >= Cardinality(Eligible(W)) => Range(result) = Eligible(W)

\* The query ran on a ledger with one row last fetched exactly W = 2 hours
\* ago (selected) and one fetched an hour ago (not selected).
C10_Witness ==
    /\ last.op = "select"
    /\ \E i, j \in DOMAIN ad_ids :
           /\ ad_ids[i].scrape_status = "scraped"
           /\ ad_ids[i].last_scraped = Some(isoformat(utcnow - 2))
           /\ ad_ids[j].scrape_status = "scraped"
           /\ ad_ids[j].last_scraped = Some(isoformat(utcnow - 1))
           /\ i \in Where(Db, Some(2))
           /\ j \notin Where(Db, Some(2))

\* The rows the selection predicate makes eligible under stale_hours.
EligibleFor(stale_hours) ==
    IF stale_hours = None
    THEN {i \in DOMAIN ad_ids :
             ad_ids[i].scrape_status # "missing" /\ ad_ids[i].last_scraped = None}
    ELSE Eligible(stale_hours[1])

\* The hour a row was last fetched, a never-fetched row before all others.
FetchedHour(i) ==
    IF ad_ids[i].last_scraped = None THEN -1 ELSE HourOf(ad_ids[i].last_scraped[1])

\* C11: in chronological order the query returns ids in ascending
\* last_scraped order with NULL as the earliest value: every never-fetched
\* id in the result precedes every fetched one, and no eligible row left
\* out by the limit was fetched earlier than a returned row.
C11_ChronologicalOrder ==
    last.op = "select" =>
    \A limit \in Limits, stale_hours \in StaleHours :
        \A result \in fetch_ids_for_scraping(Db, limit, stale_hours, FALSE) :
            /\ \A i, j \in DOMAIN result :
                   i < j => FetchedHour(result[i]) <= FetchedHour(result[j])
            /\ \A i, j \in DOMAIN result :
                   (/\ ad_ids[result[i]].last_scraped = None
                    /\ ad_ids[result[j]].last_scraped # None) => i < j
            /\ \A e \in EligibleFor(stale_hours) \ Range(result) :
                   \A k \in DOMAIN result : FetchedHour(e) >= FetchedHour(result[k])

\* The query ran on a ledger with a never-fetched row and a stale fetched
\* row, both eligible; with limit 1 the fetched row is the one left out.
C11_Witness ==
    /\ last.op = "select"
    /\ \E i, j \in Where(Db, Some(1)) :
           /\ ad_ids[i].last_scraped = None
           /\ ad_ids[j].last_scraped # None
           /\ fetch_ids_for_scraping(Db, 1, Some(1), FALSE) = {<<i>>}

\* C12: in either order the query returns exactly min(limit, N) pairwise
\* distinct ids, each satisfying the selection predicate, N being the
\* number of eligible rows.
C12_LimitAndDistinct ==
    last.op = "select" =>
    \A limit \in Limits, stale_hours \in StaleHours, random_order \in BOOLEAN :
        \A result \in fetch_ids_for_scraping(Db, limit, stale_hours, random_order) :
            /\ Len(result) = Min(limit, Cardinality(EligibleFor(stale_hours)))
            /\ Cardinality(Range(result)) = Len(result)
            /\ Range(result) \subseteq EligibleFor(stale_hours)

\* The query ran on a ledger with two eligible rows: limit 1 returns one of
\* them (either, in random order), limit 3 returns both.
C12_Witness ==
    /\ last.op = "select"
    /\ Cardinality(EligibleFor(None)) = 2
    /\ Cardinality(fetch_ids_for_scraping(Db, 1, None, TRUE)) = 2
    /\ \A result \in fetch_ids_for_scraping(Db, 3, None, TRUE) : Len(result) = 2

\* C13: the query is a pure read: the session that runs it leaves every
\* identity row and every detail row as it was.
C13_PureRead ==
    last.op = "select" => (last.ok /\ Db = last.pre)

\* The query ran on a ledger that holds identity rows and a detail row.
C13_Witness ==
    /\ last.op = "select"
    /\ DOMAIN ad_ids # {}
    /\ DOMAIN ad_details # {}
    /\ Db = last.pre

\* The page requests of the current run of the crawler, in order.
Gets == LET IsGet(e) == e[1] = "get" IN SelectSeq(crawl.trace, IsGet)

\* collect_ad_ids has returned (fetch_ids_into_db may have finished too).
Returned == crawl.pc = "after" \/ crawl.outcome = "returned"

\* Where x first appears in s.
FirstIndex(s, x) == CHOOSE k \in DOMAIN s : s[k] = x /\ \A m \in 1..(k - 1) : s[m] # x

\* C14: collect_ad_ids returns each id once, in the order of first
\* appearance across pages, also when pages overlap; an id some page showed
\* is absent only when the limit cut the result before it.
C14_UniqueFirstSeen ==
    Returned =>
        /\ \A i, j \in DOMAIN crawl.collected :
               i # j => crawl.collected[i] # crawl.collected[j]
        /\ Range(crawl.collected) \subseteq Range(crawl.seen)
        /\ \A i, j \in DOMAIN crawl.collected :
               i < j => FirstIndex(crawl.seen, crawl.collected[i])
                            < FirstIndex(crawl.seen, crawl.collected[j])
        /\ \A x \in Range(crawl.seen) \ Range(crawl.collected) :
               /\ Len(crawl.collected) = crawl.limit
               /\ \A k \in DOMAIN crawl.collected :
                      FirstIndex(crawl.seen, crawl.collected[k]) < FirstIndex(crawl.seen, x)

\* A crawl returned, not cut by the limit, after pages that repeated an id
\* an earlier page had shown, with two ids or more in the result.
C14_Witness ==
    /\ Returned
    /\ crawl.ended # "limit"
    /\ Len(crawl.collected) >= 2
    /\ Len(crawl.seen) > Cardinality(Range(crawl.seen))
    /\ Range(crawl.collected) = Range(crawl.seen)

\* C15: collect_ad_ids never returns more than limit ids; once the running
\* result reaches limit it returns exactly the first limit ids collected
\* and requests no further page.
C15_LimitStopsCrawl ==
    /\ Returned => Len(crawl.collected) <= crawl.limit
    /\ crawl.ended = "limit" =>
           /\ crawl.pc # "loop"
           /\ Len(crawl.collected) = crawl.limit
           /\ Len(Gets) = crawl.page
           /\ \A x \in Range(crawl.seen) \ Range(crawl.collected) :
                  \A k \in DOMAIN crawl.collected :
                      FirstIndex(crawl.seen, crawl.collected[k]) < FirstIndex(crawl.seen, x)

\* limit = 2 of three pages: page 1 showed one id, page 2 two new ones; the
\* result is the first two ids and page 3 was never requested.
C15_Witness ==
    /\ crawl.outcome = "returned"
    /\ crawl.ended = "limit"
    /\ crawl.limit = 2 /\ crawl.max_pages = 3
    /\ Len(crawl.seen) = 3 /\ Cardinality(Range(crawl.seen)) = 3
    /\ Len(Gets) = 2
    /\ crawl.collected = SubSeq(crawl.seen, 1, 2)

\* C16: a page that does not render within the timeout, or whose extracted
\* id list is empty, ends the crawl normally: collect_ad_ids returns the ids
\* of the earlier pages, nothing is raised, no later page is requested.
C16_TimeoutOrEmptyEndsCrawl ==
    crawl.ended \in {"timeout", "empty"} =>
        /\ crawl.pc \in {"after", "idle"}
        /\ crawl.outcome # "raised"
        /\ Len(Gets) = crawl.page
        /\ Gets[Len(Gets)][2] = crawl.page
        /\ crawl.collected = AppendNew(<<>>, crawl.seen)
        /\ crawl.pc = "idle" =>
               /\ crawl.outcome = "returned"
               /\ Range(crawl.collected) \subseteq DOMAIN ad_ids

\* Page 2 of three timed out after page 1 had shown ids: the run returned
\* and stored the ids of page 1.
C16_Witness ==
    /\ crawl.ended = "timeout"
    /\ crawl.outcome = "returned"
    /\ crawl.page = 2 /\ crawl.max_pages = 3
    /\ crawl.collected # <<>>
    /\ Range(crawl.collected) \subseteq DOMAIN ad_ids

\* The page requests of a run are for the pages 1, 2, ..., at most
\* max_pages of them.
C17_PagesInOrder ==
    /\ Len(Gets) <= crawl.max_pages
    /\ \A k \in DOMAIN Gets : Gets[k][2] = k
    /\ crawl.pc = "loop" => (crawl.page <= crawl.max_pages /\ Len(Gets) = crawl.page - 1)

\* A pass of the loop body that stays in the loop moves to the next page.
C17_PageAdvances ==
    (crawl.pc = "loop" /\ crawl'.pc = "loop") =>
        (crawl'.page = crawl.page + 1 /\ crawl'.max_pages = crawl.max_pages)

\* C17: collect_ad_ids always terminates and issues at most max_pages page
\* requests, for the pages 1, 2, ... in increasing order, whatever the
\* pages show (pages that repeat only ids already seen included).
C17_TerminatesWithinMaxPages ==
    /\ []C17_PagesInOrder
    /\ [][C17_PageAdvances]_vars
    /\ (crawl.pc = "loop" ~> crawl.pc # "loop")

\* Every page up to max_pages repeated the one id of page 1; the crawl
\* ended because the pages ran out.
C17_Witness ==
    /\ crawl.ended = "max_pages"
    /\ crawl.max_pages = MaxPages
    /\ Len(Gets) = MaxPages
    /\ Len(crawl.seen) = MaxPages
    /\ Cardinality(Range(crawl.seen)) = 1

\* The page requests and politeness delays of the current run, in order.
GetsAndDelays ==
    LET IsGetOrDelay(e) == e[1] \in {"get", "delay"} IN SelectSeq(crawl.trace, IsGetOrDelay)

\* C18: a politeness delay occurs between every two consecutive page
\* requests and never after the last page request of the crawl, whichever
\* condition ends it (timeout, empty page, limit reached, pages run out).
C18_DelayOnlyBetweenPages ==
    /\ \A k \in 1..(Len(GetsAndDelays) - 1) :
           GetsAndDelays[k][1] = "get" => GetsAndDelays[k + 1][1] = "delay"
    /\ (crawl.pc # "loop" /\ GetsAndDelays # <<>>) =>
           GetsAndDelays[Len(GetsAndDelays)][1] = "get"

\* The number a decimal text denotes.
RECURSIVE IntOf(_)
IntOf(chars) ==
    IF chars = <<>> THEN 0
    ELSE 10 * IntOf(SubSeq(chars, 1, Len(chars) - 1))
         + (CHOOSE d \in 0..9 : DigitChar[d + 1] = chars[Len(chars)])

\* The values of the page parameters in a URL's query.
PageParams(url) == LET IsPage(kv) == kv[1] = "page" IN SelectSeq(url.query, IsPage)

\* C19: build_page_url returns base_url unmodified for page 1; for page
\* n >= 2 the query of the URL it returns has exactly one page parameter,
\* with value n, whether or not base_url had a page parameter.
C19_BuildPageUrl ==
    \A k \in DOMAIN Gets :
        LET n == Gets[k][2]
            url == Gets[k][3]
        IN /\ n = 1 => url = crawl.base_url
           /\ n >= 2 =>
                  /\ Len(PageParams(url)) = 1
                  /\ PageParams(url)[1][2] # <<>>
                  /\ IntOf(PageParams(url)[1][2]) = n
                  /\ url.path = crawl.base_url.path

\* Page 2 and page 3 were requested for a base_url that had page=7 in its
\* query.
C19_Witness ==
    /\ Len(Gets) >= 3
    /\ PageParams(crawl.base_url) # <<>>
    /\ IntOf(PageParams(crawl.base_url)[1][2]) = 7
    /\ IntOf(PageParams(Gets[3][3])[1][2]) = 3

\* C20: a fatal driver failure on any page of the crawl leaves
\* fetch_ids_into_db as an exception and the ledger as it was before the
\* run: no id collected from the earlier pages is stored.
C20_FailureStoresNothing ==
    crawl.ended = "failure" =>
        /\ crawl.outcome = "raised"
        /\ crawl.pc = "idle"
        /\ Db = crawl.pre
        /\ \A i \in Range(crawl.collected) :
               i \notin DOMAIN crawl.pre.ids => i \notin DOMAIN ad_ids

\* On a ledger that an earlier run had filled, the driver failed on a
\* later page after page 1 had shown an id the ledger does not hold.
C20_Witness ==
    /\ crawl.ended = "failure"
    /\ DOMAIN crawl.pre.ids # {}
    /\ crawl.outcome = "raised"
    /\ crawl.page >= 2
    /\ \E i \in Range(crawl.collected) : i \notin DOMAIN ad_ids

\* The ids that the current download run asked the driver to fetch, in order.
Fetched ==
    LET IsGet(e) == e[1] = "get"
        got == SelectSeq(dl.trace, IsGet)
    IN [k \in DOMAIN got |-> got[k][2]]

\* The ids that the current download run wrote to the ledger, in order.
Ingested ==
    LET IsWrite(e) == e[1] \in {"save", "mark_missing"}
        wrote == SelectSeq(dl.trace, IsWrite)
    IN [k \in DOMAIN wrote |-> wrote[k][2]]

C22_NonZeroOnlyOnDriverFailure ==
    dl.pc = "done" =>
        /\ dl.exit # 0 <=> dl.ended = "driver_failure"
        /\ dl.ended = "driver_failure" => dl.outcome = "raised"

\* C23: in a batch without a driver failure every selected id is processed
\* in the selected order, each either marked missing or saved, and
\* download_ads returns (scraped, missing) with scraped + missing equal to
\* the number of selected ids.
C23_BatchProcessesEverySelectedId ==
    (dl.pc = "done" /\ dl.ended # "driver_failure") =>
        /\ dl.outcome = "returned"
        /\ Fetched = dl.target_ids
        /\ Ingested = dl.target_ids
        /\ dl.scraped + dl.missing = Len(dl.target_ids)

\* C24: saving a second record for an id that has a detail row leaves
\* exactly the second record: every column, fetched_at and the overflow map
\* are those of the second record (a value that is None in it is NULL
\* afterwards, the first record's overflow keys are gone), and the table
\* still has one detail row per id that had one.
C24_SecondRecordReplaces ==
    (last.op = "save" /\ last.ok /\ Target \in DOMAIN last.pre.details) =>
        LET record == last.arg
            row == ad_details[Target]
        IN  /\ row.fetched_at = isoformat(record.fetched_at)
            /\ row.title = record.title
            /\ row.totalpris = record.totalpris
            /\ row.raw_spec_json = JsonDumps(record.specs)
            /\ DOMAIN row = DOMAIN last.pre.details[Target]
            /\ DOMAIN ad_details = DOMAIN last.pre.details
            /\ \A j \in DOMAIN ad_details \ {Target} :
                   ad_details[j] = last.pre.details[j]

\* An id saved with a title, a price and two overflow keys was saved again
\* with neither title nor price and one other overflow key.
C24_Witness ==
    /\ last.op = "save"
    /\ last.ok
    /\ Target \in DOMAIN last.pre.details
    /\ last.pre.details[Target].title # None
    /\ last.arg.title = None
    /\ last.arg.totalpris = None
    /\ last.pre.details[Target].raw_spec_json # ad_details[Target].raw_spec_json

\* C25: in every committed state that upserts, saves, mark_missing and
\* deletions of identity rows can reach, each detail row's id has an
\* identity row; deleting an identity row removes its detail row and
\* nothing else.
C25_ReferentialIntegrity ==
    /\ DOMAIN ad_details \subseteq DOMAIN ad_ids
    /\ last.op = "delete" =>
           /\ Target \notin DOMAIN ad_ids
           /\ Target \notin DOMAIN ad_details
           /\ \A j \in DOMAIN last.pre.ids \ {Target} :
                  j \in DOMAIN ad_ids /\ ad_ids[j] = last.pre.ids[j]
           /\ \A j \in DOMAIN last.pre.details \ {Target} :
                  j \in DOMAIN ad_details /\ ad_details[j] = last.pre.details[j]

\* The identity row of an id with a detail row was deleted, another id
\* keeping its rows.
C25_Witness ==
    /\ last.op = "delete"
    /\ Target \in DOMAIN last.pre.details
    /\ DOMAIN ad_ids # {}

\* C29: an upsert session in which a statement of the batch fails commits
\* nothing: no insert and no update for any id of the batch.
C29_AtomicBatch ==
    (last.op = "upsert" /\ ~last.ok) => Db = last.pre

\* The second statement of a batch of two failed; the first would have
\* inserted a row for an id the ledger did not hold.
C29_Witness ==
    /\ last.op = "upsert"
    /\ ~last.ok
    /\ last.arg[3] = 2
    /\ \E i \in last.ids : i \notin DOMAIN last.pre.ids
    /\ \E i \in last.ids :
           i \in DOMAIN last.pre.ids /\ last.pre.ids[i].source_url # last.arg[1]

\* C26: upsert_ad_ids for an id the ledger does not hold inserts a row with
\* status pending, last_scraped NULL, first_seen = last_seen = the time of
\* the upsert, and the given source_url and fetched_by.
C26_UpsertInsertsPending ==
    (last.op = "upsert" /\ last.ok) =>
        \A i \in last.ids \ DOMAIN last.pre.ids :
            /\ i \in DOMAIN ad_ids
            /\ ad_ids[i].scrape_status = "pending"
            /\ ad_ids[i].last_scraped = None
            /\ HourOf(ad_ids[i].first_seen) = utcnow
            /\ ad_ids[i].last_seen = ad_ids[i].first_seen
            /\ ad_ids[i].source_url = last.arg[1]
            /\ ad_ids[i].fetched_by = last.arg[2]

\* A batch brought one id the ledger did not hold beside one it held, on a
\* host whose local time is not UTC, after the clock had advanced.
C26_Witness ==
    /\ last.op = "upsert"
    /\ last.ok
    /\ last.ids \ DOMAIN last.pre.ids # {}
    /\ last.ids \cap DOMAIN last.pre.ids # {}
    /\ tz # 0
    /\ utcnow > StartHour

\* C27: for an id the ledger holds, upsert_ad_ids sets source_url,
\* fetched_by and last_seen to those of this discovery whatever the row's
\* status; no step changes first_seen of an existing row; first_seen is
\* never later than last_seen.
C27_UpsertRefreshes ==
    /\ (last.op = "upsert" /\ last.ok) =>
           \A i \in last.ids \cap DOMAIN last.pre.ids :
               /\ ad_ids[i].source_url = last.arg[1]
               /\ ad_ids[i].fetched_by = last.arg[2]
               /\ HourOf(ad_ids[i].last_seen) = utcnow
    /\ \A i \in DOMAIN last.pre.ids \cap DOMAIN ad_ids :
           ad_ids[i].first_seen = last.pre.ids[i].first_seen
    /\ \A i \in DOMAIN ad_ids :
           HourOf(ad_ids[i].first_seen) <= HourOf(ad_ids[i].last_seen)

\* A scraped row was discovered again, an hour or more after it was first
\* seen, from another source_url.
C27_Witness ==
    /\ last.op = "upsert"
    /\ last.ok
    /\ \E i \in last.ids \cap DOMAIN last.pre.ids :
           /\ last.pre.ids[i].scrape_status = "scraped"
           /\ ad_ids[i].scrape_status = "scraped"
           /\ last.pre.ids[i].source_url # ad_ids[i].source_url
           /\ last.pre.ids[i].fetched_by # ad_ids[i].fetched_by
           /\ HourOf(ad_ids[i].first_seen) < HourOf(ad_ids[i].last_seen)

\* C28: upsert_ad_ids changes no row's last_scraped, creates, changes or
\* deletes no detail row, and leaves the rows of ids outside the batch as
\* they are; only save_ad_detail and mark_missing write last_scraped, and
\* only for their own id.
C28_UpsertFrame ==
    /\ last.op = "upsert" =>
           /\ ad_details = last.pre.details
           /\ DOMAIN ad_ids = DOMAIN last.pre.ids \cup last.ids
           /\ \A i \in DOMAIN last.pre.ids :
                  /\ ad_ids[i].last_scraped = last.pre.ids[i].last_scraped
                  /\ i \notin last.ids => ad_ids[i] = last.pre.ids[i]
    /\ \A i \in DOMAIN ad_ids :
           (i \notin DOMAIN last.pre.ids
               \/ ad_ids[i].last_scraped # last.pre.ids[i].last_scraped) =>
               \/ last.op = "upsert" /\ ad_ids[i].last_scraped = None
               \/ last.op \in {"save", "mark_missing"} /\ i = Target

\* A batch of one id, already fetched and with a detail row, was upserted
\* from another source_url while the ledger held another id.
C28_Witness ==
    /\ last.op = "upsert"
    /\ Cardinality(last.ids) = 1
    /\ Target \in DOMAIN last.pre.details
    /\ last.pre.ids[Target].last_scraped # None
    /\ last.pre.ids[Target].source_url # ad_ids[Target].source_url
    /\ \E j \in DOMAIN last.pre.ids : j # Target

\* The config file gives a limit, a max_pages or a staleness window below 1.
BelowOne(raw) ==
    \E f \in {"limit", "max_pages", "stale_hours"} :
        raw[f].kind = "int" /\ raw[f].value < 1

\* C30: a configuration with limit < 1, max_pages < 1 or a staleness
\* window < 1 hour is rejected when loaded, before a driver is created and
\* before the ledger is opened; values left out default to limit 200 and
\* max_pages 25 for discovery, limit 25 and no staleness window for
\* scheduling.
C30_ConfigValidated ==
    /\ (conf.pc \notin {"idle", "load"} /\ BelowOne(conf.raw)) =>
           /\ conf.pc = "rejected"
           /\ conf.exit # 0
    /\ conf.pc = "rejected" => (~conf.driver /\ ~conf.ledger)
    /\ (conf.driver \/ conf.ledger) =>
           /\ conf.config.limit >= 1
           /\ conf.model_cls = "FetchIdsConfig" => conf.config.max_pages >= 1
           /\ conf.config.stale_hours # None => conf.config.stale_hours[1] >= 1
    /\ conf.pc \in {"loaded", "running"} =>
           /\ conf.raw.limit.kind = "omitted" =>
                  conf.config.limit =
                      IF conf.model_cls = "FetchIdsConfig" THEN 200 ELSE 25
           /\ (conf.model_cls = "FetchIdsConfig" /\ conf.raw.max_pages.kind = "omitted") =>
                  conf.config.max_pages = 25
           /\ (conf.model_cls = "DownloadConfig" /\ conf.raw.stale_hours.kind = "omitted") =>
                  conf.config.stale_hours = None

\* A download config that leaves limit out and gives stale_hours = 0 was
\* rejected.
C30_Witness ==
    /\ conf.pc = "rejected"
    /\ conf.model_cls = "DownloadConfig"
    /\ conf.raw.limit.kind = "omitted"
    /\ conf.raw.stale_hours = IntValue(0)
    /\ ~conf.driver /\ ~conf.ledger

\* C34: in every state reached by discovery upserts, success ingests and
\* failure ingests, a row of ad_ids whose last_scraped is NULL has status
\* pending, and a row whose status is scraped or missing has a last_scraped
\* that is not NULL.
C34_NullLastScrapedIsPending ==
    \A i \in DOMAIN ad_ids :
        /\ ad_ids[i].last_scraped = None => ad_ids[i].scrape_status = "pending"
        /\ ad_ids[i].scrape_status \in {"scraped", "missing"} =>
               ad_ids[i].last_scraped # None

\* A failure ingest has stamped one row while another row, discovered with
\* it, has never been fetched.
C34_Witness ==
    /\ last.op = "mark_missing" /\ last.ok
    /\ Target \in DOMAIN ad_ids
    /\ ad_ids[Target].scrape_status = "missing"
    /\ ad_ids[Target].last_scraped # None
    /\ \E j \in DOMAIN ad_ids :
           /\ j # Target
           /\ ad_ids[j].last_scraped = None
           /\ ad_ids[j].scrape_status = "pending"

\* C35: in every committed state reached by discovery upserts, success
\* ingests and failure ingests, a row of ad_ids with status scraped has a
\* row in ad_details, and that row's fetched_at is the row's last_scraped.
C35_ScrapedHasDetailOfSameInstant ==
    \A i \in DOMAIN ad_ids :
        ad_ids[i].scrape_status = "scraped" =>
            /\ i \in DOMAIN ad_details
            /\ ad_ids[i].last_scraped = Some(ad_details[i].fetched_at)

\* A second success ingest of an id, at a later hour on a host whose clock
\* is not UTC, has replaced both timestamps.
C35_Witness ==
    /\ last.op = "save" /\ last.ok
    /\ tz # 0
    /\ Target \in DOMAIN last.pre.details
    /\ last.pre.details[Target].fetched_at # ad_details[Target].fetched_at
    /\ ad_ids[Target].scrape_status = "scraped"
    /\ ad_ids[Target].last_scraped = Some(ad_details[Target].fetched_at)

\* C37: a row that was marked missing and then revived to pending by
\* re-discovery is eligible for fetch_ids_for_scraping in first-fetch mode
\* (no stale_hours); more generally every pending row is eligible in that
\* mode: the predicate admits it, and the query returns it when the limit
\* allows.
C37_PendingEligibleInFirstFetchMode ==
    last.op = "select" =>
        \A i \in DOMAIN ad_ids :
            ad_ids[i].scrape_status = "pending" =>
                /\ i \in Where(Db, None)
                /\ \A random_order \in BOOLEAN :
                       \A result \in fetch_ids_for_scraping(Db, Cardinality(Ids), None, random_order) :
                           i \in Range(result)

\* C39: the timestamps written by save_ad_detail, mark_missing and
\* upsert_ad_ids and the threshold of fetch_ids_for_scraping come from the
\* same clock, for every UTC offset of the host: an ingest at instant t
\* stamps last_scraped with t as the query's clock reads it, discovery
\* stamps last_seen likewise, and a row stamped t satisfies the staleness
\* predicate with window W exactly when the query's clock reads >= t + W.
C39_SameClock ==
    /\ (last.op \in {"save", "mark_missing"} /\ last.ok /\ Target \in DOMAIN ad_ids) =>
           ad_ids[Target].last_scraped = Some(isoformat(utcnow))
    /\ (last.op = "upsert" /\ last.ok) =>
           \A i \in last.ids : ad_ids[i].last_seen = isoformat(utcnow)
    /\ last.op = "select" =>
           \A stale_hours \in StaleHours \ {None} :
               \A i \in DOMAIN ad_ids :
                   (ad_ids[i].scrape_status # "missing" /\ ad_ids[i].last_scraped # None) =>
                       (i \in Where(Db, stale_hours) <=>
                            utcnow >= HourOf(ad_ids[i].last_scraped[1]) + stale_hours[1])

\* How many times the pair kv occurs in the query of url.
Multiplicity(url, kv) ==
    LET Is(p) == p = kv IN Len(SelectSeq(url.query, Is))

\* C38: for page >= 2, build_page_url preserves every query parameter of
\* base_url other than page: each key/value pair of the original query,
\* pairs sharing a key included, occurs in the requested url as many times
\* as in base_url.
C38_OtherParametersPreserved ==
    \A k \in DOMAIN Gets :
        Gets[k][2] >= 2 =>
            \A n \in DOMAIN crawl.base_url.query :
                LET kv == crawl.base_url.query[n] IN
                kv[1] # "page" =>
                    Multiplicity(Gets[k][3], kv) = Multiplicity(crawl.base_url, kv)

\* The label/value pairs a page shows in its key-info section: the k-th dt
\* with the k-th dd of a dl that has as many dt as dd, where neither is blank, the label as its first
\* line without the trailing colon and the value with its whitespace
\* normalised.
ObservedPairs(page) ==
    IF page.key_info_section = None THEN {}
    ELSE LET root == page.key_info_section[1] IN
         {<<rstrip(strip(first_line(strip(root[n].dt[k]))), {":"}),
            get_text_content(root[n].dd[k])>> :
              <<n, k>> \in {nk \in (DOMAIN root) \X (1..2) :
                               /\ Len(root[nk[1]].dt) = Len(root[nk[1]].dd)
                               /\ nk[2] \in DOMAIN root[nk[1]].dt
                               /\ nk[2] \in DOMAIN root[nk[1]].dd
                               /\ strip(root[nk[1]].dt[nk[2]]) # <<>>
                               /\ get_text_content(root[nk[1]].dd[nk[2]]) # <<>>}}

\* C33: for every record scrape_ad returns, specs (the overflow map) is the
\* complete observation of the page, and every structured field that has a
\* value is derived from an entry of specs: a text field is the value of an
\* entry, an integer field the integer read from the value of an entry.
C33_OverflowMapIsCompleteObservation ==
    (last.op = "scrape_ad" /\ last.ok) =>
        LET page == last.arg.page
            record == last.arg.record[1]
            specs == record.specs
        IN  /\ ObservedPairs(page) \subseteq Range(specs)
            /\ \A f \in {"title", "subtitle", "merke"} :
                   record[f] # None => \E n \in DOMAIN specs : specs[n][2] = record[f][1]
            /\ \A f \in {"totalpris", "seter"} :
                   record[f] # None =>
                       \E n \in DOMAIN specs : parse_int(Some(specs[n][2])) = record[f]

\* Where a trace holds an event of the given kind.
PositionsOf(trace, kind) == {k \in DOMAIN trace : trace[k][1] = kind}

\* C32: the driver an orchestrator created is quit exactly once on every
\* way out of fetch_ids_into_db and download_ads after its creation (the
\* crawl returned, ended early, or the driver failed; the batch was
\* exhausted, or an exception left it), not before the run is over, and
\* nothing is requested after the quit: it is the last event of the run.  A
\* download run that selected nothing created no driver and quits none.
C32_DriverReleasedOnce ==
    /\ crawl.pc \in {"loop", "after"} => PositionsOf(crawl.trace, "quit") = {}
    /\ (crawl.pc = "idle" /\ crawl.runs >= 1) =>
           PositionsOf(crawl.trace, "quit") = {Len(crawl.trace)}
    /\ dl.pc = "loop" =>
           /\ PositionsOf(dl.trace, "create_driver") = {1}
           /\ PositionsOf(dl.trace, "quit") = {}
    /\ (dl.pc = "done" /\ dl.ended # "nothing_selected") =>
           /\ PositionsOf(dl.trace, "create_driver") = {1}
           /\ PositionsOf(dl.trace, "quit") = {Len(dl.trace)}
    /\ (dl.pc = "done" /\ dl.ended = "nothing_selected") => dl.trace = <<>>

\* A crawl that requested two pages has returned and its driver was quit
\* after the last request; the download run that followed was left by an
\* exception, and its driver was quit too.
C32_Witness ==
    /\ crawl.pc = "idle" /\ crawl.outcome = "returned"
    /\ Len(Gets) = 2
    /\ PositionsOf(crawl.trace, "quit") = {Len(crawl.trace)}
    /\ dl.pc = "done" /\ dl.outcome = "raised"
    /\ dl.trace = <<<<"create_driver", "">>, <<"quit", "">>>>

FetchIssued(i) ==
    /\ dl.pc = "loop"
    /\ dl.target_ids[dl.k] = i
    /\ dl'.trace # dl.trace

EligibleNow(i) ==
    /\ conf.pc = "running"
    /\ i \in Where(Db, conf.config.stale_hours)

\* The step just taken ingested i, as scraped or as missing.
IngestedNow(i) ==
    /\ last.op \in {"save", "mark_missing"}
    /\ last.ok
    /\ last.ids = {i}

====
